---- MODULE Spec2Model ----
(***************************************************************************)
(* Three parts of the application are modelled, each with its own          *)
(* variables and specifications: the job scheduler (services/taskQueue.ts, *)
(* TaskQueueManager), the submission of a media file for transcription     *)
(* (generateSubtitlesWithDeepgram) and the queue that pushes videos to the *)
(* cloud (processSyncQueue).  The actions of one part leave the variables  *)
(* of the other parts unchanged.                                           *)
(*                                                                         *)
(* The job scheduler.                                                      *)
(* The manager's fields are the variables tasks, running, executors and    *)
(* pendingQueue.  The promise chain that processQueue attaches to an       *)
(* executor call is the variable work, the promise returned by addTask is  *)
(* the variable handle, and Date.now() is the variable now.  The set       *)
(* listeners is the variable listeners; what notifyListeners passed to     *)
(* each callback during the last step is the variable delivered.           *)
(*                                                                         *)
(* Task ids are `${videoId}-${type}-${Date.now()}`; the model numbers the  *)
(* tasks 1, 2, ... in the order of the addTask calls and so takes two      *)
(* addTask calls to produce different ids.  clearOldTasks, which only      *)
(* removes tasks that ended more than an hour ago, is not part of the      *)
(* model: the tasks map only grows.                                        *)
(*                                                                         *)
(* The then/catch callback and the finally callback that processQueue      *)
(* chains to an executor call run as one step: the finally callback only   *)
(* forgets the executor and calls processQueue again, every method that    *)
(* frees a slot or queues a task has called processQueue itself, and a     *)
(* started task never returns to pendingQueue.                             *)
(***************************************************************************)
EXTENDS Integers, Sequences, FiniteSets, TLC

\* ------------------------------------------------------------------ bounds
\* Tasks added under Spec, and under the specifications that add the
\* polling timers, the progress updates or the clock to it.
MaxJobs == 5
MaxJobsObserved == 4
\* Calls of updateTask.
MaxUpdates == 2
\* Advances of Date.now().
MaxTime == 1
\* Calls of generateSubtitlesWithDeepgram.
MaxCalls == 2
\* Progress reports of one collaborator call.
MaxReports == 1
\* Videos that are queued for sync, and calls of processSyncQueue that wait
\* on a promise at the same time.
MaxVideos == 2
MaxDrains == 2
\* Calls of syncToCloud that are counted for one queue entry.
MaxPushes == 3
\* Callbacks that subscribe, and calls of updateTask while they do.
MaxListeners == 2
MaxUpdatesListened == 1

\* --------------------------------------------------------- program values
MaxConcurrent == 3

TaskIds == 1..MaxJobs

Callbacks == 1..MaxListeners

\* What an executor's promise can resolve with.
Results == {"r"}
\* What an executor's promise can reject with: an Error carrying a message,
\* or a value that is no Error.
Reasons == {[isError |-> TRUE, message |-> "boom"],
            [isError |-> FALSE, message |-> "str"]}
\* The percentages a progress update can carry.
ProgressInputs == {0 - 10, 50, 100, 150}

\* An optional field that was never assigned.
Absent == "absent"

VARIABLES tasks, running, executors, pendingQueue, work, startOrder,
          handle, now, updates, listeners, delivered

schedVars == <<tasks, running, executors, pendingQueue, work, startOrder,
               handle, now, updates, listeners, delivered>>

\* One call of generateSubtitlesWithDeepgram at a time: where the call
\* stands, the file it was given, the size of the compressed audio, the
\* collaborator calls made so far, what the call returned or threw, the
\* objects in the storage bucket, and the number of calls so far.
VARIABLES routerPc, file, compressedSize, attempts, outcome, storage, calls

\* The values the call has passed to onProgress, and the number of reports
\* the collaborator that is running has made.
VARIABLES onProgressLog, reports

routerVars == <<routerPc, file, compressedSize, attempts, outcome, storage, calls,
                onProgressLog, reports>>

\* The sync queue of the module: its variables, the environment it reads
\* (navigator.onLine, whether the cloud client is configured), and the calls
\* of processSyncQueue that are waiting on a promise.
VARIABLES syncQueue, isSyncing, syncStatus, lastSyncTime, lastError,
          retryTimer, initialized, online, available, drains

\* History of the sync queue: for every id that was ever queued, the number
\* of calls of syncToCloud for it since it was last appended to the queue.
VARIABLES pushes

\* The videos that were changed locally (queueVideoForSync was called for
\* them) and of which no push that started at or after the change has
\* succeeded.  A push that was in flight when its video changed is stale.
VARIABLES unmirrored

syncVars == <<syncQueue, isSyncing, syncStatus, lastSyncTime, lastError,
              retryTimer, initialized, online, available, drains, pushes,
              unmirrored>>

vars == <<schedVars, routerVars, syncVars>>

\* ------------------------------------------------------------ the manager
\* The fields of TaskQueueManager that its methods read and write, with the
\* state of the executors' promise chains and the order of executor calls.
\* notes collects, during one step, the task lists notifyListeners passes to
\* the callbacks.
Mgr ==
  [tasks |-> tasks, running |-> running, executors |-> executors,
   pendingQueue |-> pendingQueue, work |-> work, startOrder |-> startOrder,
   notes |-> <<>>]

\* listeners.forEach(listener => listener(tasks)): every subscribed callback
\* received the lists of this step, the others nothing.
Deliver(notes) ==
  [cb \in Callbacks |-> IF cb \in listeners THEN notes ELSE <<>>]

Install(m) ==
  /\ tasks' = m.tasks
  /\ running' = m.running
  /\ executors' = m.executors
  /\ pendingQueue' = m.pendingQueue
  /\ work' = m.work
  /\ startOrder' = m.startOrder
  /\ delivered' = Deliver(m.notes)
  /\ UNCHANGED listeners
  /\ UNCHANGED <<routerVars, syncVars>>

\* The ids of ts ordered as Array.prototype.sort orders the tasks with
\* (a, b) => (b.startTime || 0) - (a.startTime || 0): latest start first,
\* tasks with equal start times in the order of insertion.
RECURSIVE SortedIds(_, _)
SortedIds(ts, ids) ==
  IF ids = {} THEN <<>>
  ELSE LET first == CHOOSE a \in ids : \A b \in ids :
                      \/ ts[a].startTime > ts[b].startTime
                      \/ ts[a].startTime = ts[b].startTime /\ a <= b
       IN <<first>> \o SortedIds(ts, ids \ {first})

\* getAllTasks(): the tasks with their ids, sorted.
getAllTasks(m) ==
  LET ids == SortedIds(m.tasks, DOMAIN m.tasks)
  IN [i \in 1..Len(ids) |-> [id |-> ids[i], task |-> m.tasks[ids[i]]]]

\* notifyListeners(): the list is built once and passed to every listener.
notifyListeners(m) ==
  [m EXCEPT !.notes = Append(@, getAllTasks(m))]

\* The task object addTask creates.  A time of 0 is a time never assigned.
NewTask ==
  [status |-> "pending", progress |-> 0, startTime |-> 0, endTime |-> 0,
   error |-> Absent, result |-> Absent]

NewWork == [phase |-> "idle", calls |-> 0]

\* The loop condition of processQueue with <= for <.
HasFreeSlotOver(m) ==
  Cardinality(m.running) <= MaxConcurrent /\ Len(m.pendingQueue) > 0

\* The loop condition of processQueue.
HasFreeSlot(m) ==
  Cardinality(m.running) < MaxConcurrent /\ Len(m.pendingQueue) > 0

\* pendingQueue.pop() in the place of shift().
ShiftLast(q) ==
  [taskId |-> q[Len(q)], rest |-> SubSeq(q, 1, Len(q) - 1)]

\* pendingQueue.shift(): the id taken and the queue left.
Shift(q) ==
  [taskId |-> Head(q), rest |-> Tail(q)]

\* startTask without the call of notifyListeners.
startTaskSilent(m, taskId, t) ==
  IF taskId \notin DOMAIN m.tasks THEN m
  ELSE [m EXCEPT !.tasks[taskId].status = "running",
                 !.tasks[taskId].startTime = t,
                 !.running = @ \cup {taskId}]

startTask(m, taskId, t) ==
  IF taskId \notin DOMAIN m.tasks THEN m
  ELSE notifyListeners(
         [m EXCEPT !.tasks[taskId].status = "running",
                   !.tasks[taskId].startTime = t,
                   !.running = @ \cup {taskId}])

\* executor(taskId): the work unit starts; its promise is not settled yet.
callExecutor(m, taskId) ==
  [m EXCEPT !.work[taskId] = [phase |-> "inflight", calls |-> @.calls + 1],
            !.startOrder = Append(@, taskId)]

RECURSIVE processQueue(_, _)
processQueue(m, t) ==
  IF HasFreeSlot(m)
  THEN LET s == Shift(m.pendingQueue)
           m1 == [m EXCEPT !.pendingQueue = s.rest]
       IN IF s.taskId \notin DOMAIN m1.tasks \/ s.taskId \notin m1.executors
          THEN processQueue(m1, t)
          ELSE processQueue(callExecutor(startTask(m1, s.taskId, t), s.taskId), t)
  ELSE m

\* completeTask without the assignment of the result.
completeTaskDroppingResult(m, taskId, result, t) ==
  IF taskId \notin DOMAIN m.tasks THEN m
  ELSE processQueue(notifyListeners(
         [m EXCEPT !.tasks[taskId].status = "completed",
                   !.tasks[taskId].progress = 100,
                   !.tasks[taskId].endTime = t,
                   !.running = @ \ {taskId}]), t)

completeTask(m, taskId, result, t) ==
  IF taskId \notin DOMAIN m.tasks THEN m
  ELSE processQueue(notifyListeners(
         [m EXCEPT !.tasks[taskId].status = "completed",
                   !.tasks[taskId].progress = 100,
                   !.tasks[taskId].endTime = t,
                   !.tasks[taskId].result = result,
                   !.running = @ \ {taskId}]), t)

\* failTask without running.delete(taskId).
failTaskKeepingSlot(m, taskId, error, t) ==
  IF taskId \notin DOMAIN m.tasks THEN m
  ELSE processQueue(notifyListeners(
         [m EXCEPT !.tasks[taskId].status = "failed",
                   !.tasks[taskId].endTime = t,
                   !.tasks[taskId].error = error]), t)

failTask(m, taskId, error, t) ==
  IF taskId \notin DOMAIN m.tasks THEN m
  ELSE processQueue(notifyListeners(
         [m EXCEPT !.tasks[taskId].status = "failed",
                   !.tasks[taskId].endTime = t,
                   !.tasks[taskId].error = error,
                   !.running = @ \ {taskId}]), t)

\* cancelTask without the call of processQueue.
cancelTaskNoProcessQueue(m, taskId, t) ==
  IF taskId \notin DOMAIN m.tasks THEN m
  ELSE notifyListeners([m EXCEPT !.tasks[taskId].status = "cancelled",
                 !.tasks[taskId].endTime = t,
                 !.running = @ \ {taskId}])

cancelTask(m, taskId, t) ==
  IF taskId \notin DOMAIN m.tasks THEN m
  ELSE processQueue(notifyListeners(
         [m EXCEPT !.tasks[taskId].status = "cancelled",
                   !.tasks[taskId].endTime = t,
                   !.running = @ \ {taskId}]), t)

\* Object.assign(task, updates) with updates = {progress}.
updateTask(m, taskId, progress) ==
  IF taskId \notin DOMAIN m.tasks THEN m
  ELSE notifyListeners([m EXCEPT !.tasks[taskId].progress = progress])

\* error instanceof Error ? error.message : 'Unknown error'
ErrorMessage(reason) ==
  IF reason.isError THEN reason.message ELSE "Unknown error"

\* The body of addTask up to the creation of the returned promise.
addTask(m, taskId, t) ==
  processQueue(notifyListeners(
    [m EXCEPT !.tasks = taskId :> NewTask @@ @,
              !.executors = @ \cup {taskId},
              !.work = taskId :> NewWork @@ @,
              !.pendingQueue = Append(@, taskId)]), t)

\* The promise returned by addTask.
Waiting == [state |-> "pending", value |-> Absent]

\* checkCompletion without its branch for a cancelled task.
checkCompletionIgnoringCancelled(m, taskId) ==
  IF taskId \notin DOMAIN m.tasks
  THEN [state |-> "rejected", value |-> "Task not found"]
  ELSE LET currentTask == m.tasks[taskId] IN
       IF currentTask.status = "completed"
       THEN [state |-> "fulfilled", value |-> currentTask.result]
       ELSE IF currentTask.status = "failed"
       THEN [state |-> "rejected",
             value |-> IF currentTask.error \in {Absent, ""}
                       THEN "Task failed" ELSE currentTask.error]
       ELSE Waiting

\* One run of checkCompletion: the promise's state afterwards.
checkCompletion(m, taskId) ==
  IF taskId \notin DOMAIN m.tasks
  THEN [state |-> "rejected", value |-> "Task not found"]
  ELSE LET currentTask == m.tasks[taskId] IN
       IF currentTask.status = "completed"
       THEN [state |-> "fulfilled", value |-> currentTask.result]
       ELSE IF currentTask.status = "failed"
       THEN [state |-> "rejected",
             value |-> IF currentTask.error \in {Absent, ""}
                       THEN "Task failed" ELSE currentTask.error]
       ELSE IF currentTask.status = "cancelled"
       THEN [state |-> "rejected", value |-> "Task cancelled"]
       ELSE Waiting

\* ------------------------------------------------------------------ state
SchedInit ==
  /\ tasks = <<>>
  /\ running = {}
  /\ executors = {}
  /\ pendingQueue = <<>>
  /\ work = <<>>
  /\ startOrder = <<>>
  /\ handle = <<>>
  /\ now = 1
  /\ updates = 0
  /\ listeners = {}
  /\ delivered = [cb \in Callbacks |-> <<>>]

NextId == Cardinality(DOMAIN tasks) + 1

\* ------------------------------------------------------------- the router
VERCEL_SIZE_LIMIT_MB == 4

BytesPerMB == 1024 * 1024

LimitBytes == VERCEL_SIZE_LIMIT_MB * BytesPerMB

\* file.size of the files submitted, and the sizes the compressed audio can
\* have, in bytes.
FileSizes == {LimitBytes - 1, LimitBytes, LimitBytes + 1, 50000000}
CompressedSizes == {3500000, LimitBytes, LimitBytes + 1}

\* The bodies the provider answers with.
Responses == {"transcript", "no speech"}

\* Error messages are sequences of their parts.
Includes(message, part) == \E i \in 1..Len(message) : message[i] = part

\* The messages extractAndCompressAudio and uploadFileToStorageWithProgress
\* can throw.
CompressionErrors == {<<"decode failed">>, <<"codec", "not supported">>}
UploadErrors == {<<"missing credentials">>, <<"mime type audio/wav is", "not supported">>}

\* How a fetch through the proxy can fail: it throws, or the response is
\* not ok.
FetchFailures == {[class |-> "network", status |-> "none"],
                  [class |-> "http", status |-> "413"],
                  [class |-> "http", status |-> "401"]}

\* The message of the error a failed fetch ends in.
FetchErrorMessage(failure) ==
  IF failure.class = "network" THEN <<"Failed to fetch">>
  ELSE <<"Deepgram API error", failure.status>>

\* fileSizeMB >= VERCEL_SIZE_LIMIT_MB in the place of >.
TooLargeOrEqual(bytes) == bytes >= LimitBytes

\* fileSizeMB > VERCEL_SIZE_LIMIT_MB, with fileSizeMB = size / (1024 * 1024).
TooLarge(bytes) == bytes > LimitBytes

NoOutcome == [kind |-> "none", value |-> <<>>]
Returned(response) == [kind |-> "returned", value |-> <<response>>]
Thrown(message) == [kind |-> "thrown", value |-> message]

\* The error the inner catch (uploadError) throws.
CompositeUploadError(uploadErrorMessage) ==
  <<"Compressed audio still too large", "Failed to upload to storage:">>
    \o uploadErrorMessage \o <<"Suggested solutions">>

CompressionNotSupported == <<"Audio compression", "not supported">>

\* The outer catch: an error whose message includes 'not supported' is
\* replaced, any other is thrown again.
OuterCatch(message) ==
  IF Includes(message, "not supported")
  THEN CompressionNotSupported
  ELSE message

Attempt(op, bytes) == [op |-> op, bytes |-> bytes]

RouterInit ==
  /\ routerPc = "idle"
  /\ file = [size |-> 0]
  /\ compressedSize = 0
  /\ attempts = <<>>
  /\ outcome = NoOutcome
  /\ storage = {}
  /\ calls = 0
  /\ onProgressLog = <<>>
  /\ reports = 0

\* The call ends: it returns or throws.
Conclude(result) ==
  /\ routerPc' = "done"
  /\ outcome' = result

\* generateSubtitlesWithDeepgram(file) is called and runs to its first
\* collaborator call: extractAndCompressAudio for a large file, the fetch
\* through the proxy for a small one.
RouterCall(size, hasKey, extractionSupported) ==
  /\ routerPc \in {"idle", "done"}
  /\ calls < MaxCalls
  /\ calls' = calls + 1
  /\ file' = [size |-> size]
  /\ compressedSize' = 0
  /\ IF ~hasKey
     THEN /\ Conclude(Thrown(<<"Deepgram API key not configured">>))
          /\ attempts' = <<>>
          /\ onProgressLog' = <<>>
     ELSE IF TooLarge(size)
     THEN IF ~extractionSupported
          THEN /\ Conclude(Thrown(OuterCatch(<<"Audio extraction", "not supported",
                                              "in this browser">>)))
               /\ attempts' = <<>>
               /\ onProgressLog' = <<>>
          ELSE /\ routerPc' = "compress"
               /\ attempts' = <<Attempt("compress", size)>>
               /\ outcome' = NoOutcome
               /\ onProgressLog' = <<5>>
     ELSE /\ routerPc' = "direct"
          /\ attempts' = <<Attempt("direct", size)>>
          /\ outcome' = NoOutcome
          /\ onProgressLog' = <<10>>
  /\ reports' = 0
  /\ UNCHANGED storage
  /\ UNCHANGED <<schedVars, syncVars>>

\* extractAndCompressAudio resolves: the audio goes to storage if it is
\* still too large, through the proxy otherwise.
CompressResolve(size) ==
  /\ routerPc = "compress"
  /\ compressedSize' = size
  /\ IF TooLarge(size)
     THEN /\ routerPc' = "upload"
          /\ attempts' = Append(attempts, Attempt("upload", size))
          /\ file' = file
          /\ onProgressLog' = Append(onProgressLog, 50)
     ELSE /\ routerPc' = "direct"
          /\ attempts' = Append(attempts, Attempt("direct", size))
          /\ file' = [size |-> size]
          /\ onProgressLog' = onProgressLog \o <<50, 10>>
  /\ reports' = 0
  /\ UNCHANGED <<outcome, storage, calls>>
  /\ UNCHANGED <<schedVars, syncVars>>

\* extractAndCompressAudio rejects.
CompressReject(message) ==
  /\ routerPc = "compress"
  /\ Conclude(Thrown(OuterCatch(message)))
  /\ UNCHANGED <<file, compressedSize, attempts, storage, calls,
                 onProgressLog, reports>>
  /\ UNCHANGED <<schedVars, syncVars>>

\* uploadFileToStorageWithProgress resolves: the object is in the bucket
\* and the provider is asked to fetch it by its URL.
UploadResolve ==
  /\ routerPc = "upload"
  /\ storage' = storage \cup {calls}
  /\ routerPc' = "url"
  /\ attempts' = Append(attempts, Attempt("url", 0))
  /\ onProgressLog' = Append(onProgressLog, 80)
  /\ UNCHANGED <<file, compressedSize, outcome, calls, reports>>
  /\ UNCHANGED <<schedVars, syncVars>>

\* What the call throws when the upload or the request by URL failed with
\* the message: the inner catch, then the outer catch.
UploadFailed(message) ==
  Thrown(OuterCatch(CompositeUploadError(message)))

\* uploadFileToStorageWithProgress rejects.
UploadReject(message) ==
  /\ routerPc = "upload"
  /\ Conclude(UploadFailed(message))
  /\ UNCHANGED <<file, compressedSize, attempts, storage, calls,
                 onProgressLog, reports>>
  /\ UNCHANGED <<schedVars, syncVars>>

\* The request by URL is answered with a result.
UrlResolve(response) ==
  /\ routerPc = "url"
  /\ Conclude(Returned(response))
  /\ onProgressLog' = onProgressLog \o <<90, 100>>
  /\ UNCHANGED <<file, compressedSize, attempts, storage, calls, reports>>
  /\ UNCHANGED <<schedVars, syncVars>>

\* onProgress(90) follows the await of fetch: it is called when fetch
\* resolved, whatever the status of the response, and not when it rejected.
AfterResponse(failure) ==
  IF failure.class = "http" THEN Append(onProgressLog, 90) ELSE onProgressLog

\* The values a collaborator reports to its onProgress option.
ProgressReports == {0, 100}

\* extractAndCompressAudio reports its progress: onProgress(5 + p * 0.45).
CompressProgress(p) ==
  /\ routerPc = "compress"
  /\ reports < MaxReports
  /\ reports' = reports + 1
  /\ onProgressLog' = Append(onProgressLog, 5 + (p * 45) \div 100)
  /\ UNCHANGED <<routerPc, file, compressedSize, attempts, outcome, storage, calls>>
  /\ UNCHANGED <<schedVars, syncVars>>

\* uploadFileToStorageWithProgress reports: onProgress(50 + up * 0.3).
UploadProgress(p) ==
  /\ routerPc = "upload"
  /\ reports < MaxReports
  /\ reports' = reports + 1
  /\ onProgressLog' = Append(onProgressLog, 50 + (p * 30) \div 100)
  /\ UNCHANGED <<routerPc, file, compressedSize, attempts, outcome, storage, calls>>
  /\ UNCHANGED <<schedVars, syncVars>>

\* The request by URL is made a second time before the call gives up.
UrlRejectRetrying(failure) ==
  /\ routerPc = "url"
  /\ IF Cardinality({i \in 1..Len(attempts) : attempts[i].op = "url"}) < 2
     THEN /\ attempts' = Append(attempts, Attempt("url", 0))
          /\ UNCHANGED <<routerPc, outcome>>
     ELSE /\ Conclude(UploadFailed(FetchErrorMessage(failure)))
          /\ UNCHANGED attempts
  /\ UNCHANGED <<file, compressedSize, storage, calls, onProgressLog, reports>>
  /\ UNCHANGED <<schedVars, syncVars>>

\* The request by URL fails: the error is caught by the inner catch.
UrlReject(failure) ==
  /\ routerPc = "url"
  /\ Conclude(UploadFailed(FetchErrorMessage(failure)))
  /\ onProgressLog' = AfterResponse(failure)
  /\ UNCHANGED <<file, compressedSize, attempts, storage, calls, reports>>
  /\ UNCHANGED <<schedVars, syncVars>>

\* The request with the file as its body is answered with a result.
DirectResolve(response) ==
  /\ routerPc = "direct"
  /\ Conclude(Returned(response))
  /\ onProgressLog' = onProgressLog \o <<90, 100>>
  /\ UNCHANGED <<file, compressedSize, attempts, storage, calls, reports>>
  /\ UNCHANGED <<schedVars, syncVars>>

\* What the call does when the request with the file as its body failed:
\* it retries nothing and throws.
DirectFailed(failure) == Thrown(FetchErrorMessage(failure))

\* The request with the file as its body fails.
DirectReject(failure) ==
  /\ routerPc = "direct"
  /\ Conclude(DirectFailed(failure))
  /\ onProgressLog' = AfterResponse(failure)
  /\ UNCHANGED <<file, compressedSize, attempts, storage, calls, reports>>
  /\ UNCHANGED <<schedVars, syncVars>>

\* ---------------------------------------------------------- the sync queue
VideoIds == 1..MaxVideos

Null == "null"

\* What getCurrentUser resolves with.
Users == {Null, "user"}

\* The error of a push that the remote store refused because the session
\* is not, or no longer, authenticated.
AuthRejectedMessage == "JWT expired"

\* What syncToCloud resolves with, and the messages it can reject with.
PushResults == {[success |-> TRUE, error |-> Null],
                [success |-> FALSE, error |-> "quota exceeded"],
                [success |-> FALSE, error |-> AuthRejectedMessage],
                [success |-> FALSE, error |-> Null]}
PushErrors == {"network error"}

OfflineMessage == "offline, waiting for the network"
NotConfiguredMessage == "cloud sync is not configured"
LoginMessage == "log in to start auto sync"
DefaultPushMessage == "sync failed, retry later"

\* The module's variables as one value, for the functions below.
Sync ==
  [syncQueue |-> syncQueue, isSyncing |-> isSyncing, syncStatus |-> syncStatus,
   lastSyncTime |-> lastSyncTime, lastError |-> lastError,
   retryTimer |-> retryTimer, drains |-> drains, pushes |-> pushes,
   unmirrored |-> unmirrored]

InstallSync(s) ==
  /\ syncQueue' = s.syncQueue
  /\ isSyncing' = s.isSyncing
  /\ syncStatus' = s.syncStatus
  /\ lastSyncTime' = s.lastSyncTime
  /\ lastError' = s.lastError
  /\ retryTimer' = s.retryTimer
  /\ drains' = s.drains
  /\ pushes' = s.pushes
  /\ unmirrored' = s.unmirrored
  /\ UNCHANGED <<schedVars, routerVars>>

\* updateStatus(status, errorMessage); errorMessage is Null when absent.
updateStatus(s, status, errorMessage) ==
  [s EXCEPT !.syncStatus = status,
            !.lastError = IF errorMessage # Null THEN errorMessage
                          ELSE IF status = "error" THEN @
                          ELSE Null]

\* The default delay of scheduleRetry, in milliseconds.
RetryDelay == 5000

\* No timer is set.
NoTimer == 0

\* lastSyncTime is null: nothing was synced yet.
NoTime == 0

\* scheduleRetry(): the timer that is set, if any, is replaced by one that
\* fires after the delay.
scheduleRetry(s) == [s EXCEPT !.retryTimer = RetryDelay]

RemoveAt(seq, i) == SubSeq(seq, 1, i - 1) \o SubSeq(seq, i + 1, Len(seq))

\* processSyncQueue() without its check of navigator.onLine.
processSyncQueueIgnoringOffline(s) ==
  IF s.isSyncing \/ s.syncQueue = <<>> THEN s
  ELSE IF ~available THEN updateStatus(s, "error", NotConfiguredMessage)
  ELSE [s EXCEPT !.drains = Append(@, [pc |-> "auth", videoId |-> 0, stale |-> FALSE])]

\* processSyncQueue() up to its first await.
processSyncQueue(s) ==
  IF s.isSyncing \/ s.syncQueue = <<>> THEN s
  ELSE IF ~online' THEN updateStatus(s, "error", OfflineMessage)
  ELSE IF ~available THEN updateStatus(s, "error", NotConfiguredMessage)
  ELSE [s EXCEPT !.drains = Append(@, [pc |-> "auth", videoId |-> 0, stale |-> FALSE])]

\* The end of the try block without the test of the queue's length.
afterLoopAlwaysIdle(s, i) ==
  [updateStatus(s, "idle", Null)
     EXCEPT !.lastSyncTime = now, !.isSyncing = FALSE, !.drains = RemoveAt(@, i)]

\* The end of the try block, and the finally block, of the call i; new
\* Date() reads the clock.
afterLoop(s, i) ==
  LET s1 == IF s.syncQueue = <<>>
            THEN [updateStatus(s, "idle", Null) EXCEPT !.lastSyncTime = now]
            ELSE scheduleRetry(s)
  IN [s1 EXCEPT !.isSyncing = FALSE, !.drains = RemoveAt(@, i)]

\* The call i of processSyncQueue calls syncToCloud(user.id, videoId) and
\* waits for it.
callSyncToCloud(s, i, videoId) ==
  [s EXCEPT !.drains[i] = [pc |-> "push", videoId |-> videoId, stale |-> FALSE],
            !.pushes[videoId] = IF @ < MaxPushes THEN @ + 1 ELSE @]

\* The while loop taking the id that was queued last.
whileLoopNewestFirst(s, i) ==
  IF s.syncQueue # <<>>
  THEN callSyncToCloud(s, i, s.syncQueue[Len(s.syncQueue)])
  ELSE afterLoop(s, i)

\* The head of the while loop of the call i: the first id of the queue is
\* pushed, or the loop ends.
whileLoop(s, i) ==
  IF s.syncQueue # <<>>
  THEN callSyncToCloud(s, i, Head(s.syncQueue))
  ELSE afterLoop(s, i)

\* syncQueue.shift()
shift(q) == IF q = <<>> THEN q ELSE Tail(q)

SyncInit ==
  /\ syncQueue = <<>>
  /\ isSyncing = FALSE
  /\ syncStatus = "idle"
  /\ lastSyncTime = NoTime
  /\ lastError = Null
  /\ retryTimer = NoTimer
  /\ initialized = FALSE
  /\ online = TRUE
  /\ available = TRUE
  /\ drains = <<>>
  /\ pushes = <<>>
  /\ unmirrored = {}

\* The application was loaded without the configuration of the cloud
\* client: supabase is null from the start, before anything else happens.
LoadedWithoutCloud ==
  /\ SyncInit
  /\ available' = FALSE
  /\ UNCHANGED <<initialized, online>>
  /\ InstallSync(Sync)

\* initAutoSync()
InitAutoSync ==
  /\ ~initialized
  /\ initialized' = TRUE
  /\ UNCHANGED <<online, available>>
  /\ InstallSync(processSyncQueue(IF ~online
                                   THEN updateStatus(Sync, "error", OfflineMessage)
                                   ELSE Sync))

\* The caller of queueVideoForSync(videoId) has changed the video: it is
\* not mirrored any more, and a push of it that is in flight carries the
\* old state.
localChange(s, videoId) ==
  [s EXCEPT !.unmirrored = @ \cup {videoId},
            !.drains = [i \in DOMAIN @ |->
                          IF @[i].pc = "push" /\ @[i].videoId = videoId
                          THEN [@[i] EXCEPT !.stale = TRUE]
                          ELSE @[i]]]

\* A push of the call i has succeeded: the video is mirrored if it has not
\* changed since the push started.
mirrored(s, i) ==
  IF s.drains[i].stale THEN s
  ELSE [s EXCEPT !.unmirrored = @ \ {s.drains[i].videoId}]

\* syncQueue.push(videoId): a new entry, for which nothing was pushed yet.
syncQueuePush(s, videoId) ==
  [s EXCEPT !.syncQueue = Append(@, videoId),
            !.pushes = [v \in DOMAIN @ \cup {videoId} |->
                          IF v = videoId THEN 0 ELSE @[v]]]

\* queueVideoForSync(videoId) without the test of syncQueue.includes.
QueueVideoForSyncNoCheck(videoId) ==
  /\ Len(drains) < MaxDrains
  /\ Len(syncQueue) < MaxVideos
  /\ UNCHANGED <<initialized, online, available>>
  /\ InstallSync(processSyncQueue(syncQueuePush(localChange(Sync, videoId), videoId)))

\* queueVideoForSync(videoId)
QueueVideoForSync(videoId) ==
  /\ Len(drains) < MaxDrains
  /\ UNCHANGED <<initialized, online, available>>
  /\ IF \E i \in 1..Len(syncQueue) : syncQueue[i] = videoId
     THEN InstallSync(localChange(Sync, videoId))
     ELSE InstallSync(processSyncQueue(syncQueuePush(localChange(Sync, videoId),
                                                     videoId)))

\* The timer set by scheduleRetry fires.
RetryTimerFires ==
  /\ retryTimer # NoTimer
  /\ Len(drains) < MaxDrains
  /\ UNCHANGED <<initialized, online, available>>
  /\ InstallSync(processSyncQueue([Sync EXCEPT !.retryTimer = NoTimer]))

\* The interval timer set by initAutoSync fires.
PeriodicTimerFires ==
  /\ initialized
  /\ Len(drains) < MaxDrains
  /\ UNCHANGED <<initialized, online, available>>
  /\ InstallSync(processSyncQueue(Sync))

\* The browser goes online; the listener runs if initAutoSync has added it.
OnlineEvent ==
  /\ ~online
  /\ Len(drains) < MaxDrains
  /\ online' = TRUE
  /\ UNCHANGED <<initialized, available>>
  /\ IF initialized
     THEN InstallSync(processSyncQueue(updateStatus(Sync, "idle", Null)))
     ELSE InstallSync(Sync)

\* The browser goes offline.
OfflineEvent ==
  /\ online
  /\ online' = FALSE
  /\ UNCHANGED <<initialized, available>>
  /\ IF initialized
     THEN InstallSync(updateStatus(Sync, "error", OfflineMessage))
     ELSE InstallSync(Sync)

\* getCurrentUser() resolves for the call i of processSyncQueue.
AuthResolve(i, user) ==
  /\ i \in 1..Len(drains)
  /\ drains[i].pc = "auth"
  /\ UNCHANGED <<initialized, online, available>>
  /\ IF user = Null
     THEN InstallSync([updateStatus(Sync, "error", LoginMessage)
                         EXCEPT !.drains = RemoveAt(@, i)])
     ELSE InstallSync(whileLoop(updateStatus([Sync EXCEPT !.isSyncing = TRUE],
                                             "syncing", Null), i))

\* syncToCloud(user.id, videoId) resolves for the call i.
PushResolve(i, result) ==
  /\ i \in 1..Len(drains)
  /\ drains[i].pc = "push"
  /\ UNCHANGED <<initialized, online, available>>
  /\ IF ~result.success
     THEN InstallSync(afterLoop(updateStatus(Sync, "error",
                                             IF result.error # Null
                                             THEN result.error
                                             ELSE DefaultPushMessage), i))
     ELSE InstallSync(whileLoop([mirrored(Sync, i) EXCEPT !.syncQueue = shift(@)], i))

\* syncToCloud(user.id, videoId) rejects for the call i.
PushReject(i, message) ==
  /\ i \in 1..Len(drains)
  /\ drains[i].pc = "push"
  /\ UNCHANGED <<initialized, online, available>>
  /\ InstallSync([scheduleRetry(updateStatus(Sync, "error", message))
                    EXCEPT !.isSyncing = FALSE, !.drains = RemoveAt(@, i)])

Init ==
  /\ SchedInit
  /\ RouterInit
  /\ SyncInit

\* addTask(videoId, videoName, type, executor)
AddTask(limit) ==
  /\ NextId <= limit
  /\ LET m == addTask(Mgr, NextId, now) IN
       /\ Install(m)
       /\ handle' = NextId :> checkCompletion(m, NextId) @@ handle
  /\ UNCHANGED <<now, updates>>

\* The timer set by checkCompletion fires.
CheckCompletion(taskId) ==
  /\ taskId \in DOMAIN handle
  /\ handle[taskId].state = "pending"
  /\ handle' = [handle EXCEPT ![taskId] = checkCompletion(Mgr, taskId)]
  /\ delivered' = Deliver(<<>>)
  /\ UNCHANGED <<tasks, running, executors, pendingQueue, work, startOrder,
                 now, updates, listeners>>
  /\ UNCHANGED <<routerVars, syncVars>>

\* The finally-callback of processQueue, which runs right after the then- or
\* the catch-callback of the same chain.
finallyCallback(m, taskId, t) ==
  processQueue([m EXCEPT !.executors = @ \ {taskId},
                         !.work[taskId].phase = "done"], t)

\* The executor's promise resolves: the then-callback of processQueue, then
\* the finally-callback.
ExecutorResolve(taskId, result) ==
  /\ taskId \in DOMAIN work
  /\ work[taskId].phase = "inflight"
  /\ Install(finallyCallback(completeTask(Mgr, taskId, result, now), taskId, now))
  /\ UNCHANGED <<handle, now, updates>>

\* The executor's promise rejects: the catch-callback of processQueue, then
\* the finally-callback.
ExecutorReject(taskId, reason) ==
  /\ taskId \in DOMAIN work
  /\ work[taskId].phase = "inflight"
  /\ Install(finallyCallback(failTask(Mgr, taskId, ErrorMessage(reason), now),
                             taskId, now))
  /\ UNCHANGED <<handle, now, updates>>

\* cancelTask(taskId), for any id a caller may pass.
CancelTask(taskId) ==
  /\ Install(cancelTask(Mgr, taskId, now))
  /\ UNCHANGED <<handle, now, updates>>

\* updateTask(taskId, {progress}), for any id a caller may pass.
UpdateTask(taskId, progress) ==
  /\ updates < MaxUpdates
  /\ updates' = updates + 1
  /\ Install(updateTask(Mgr, taskId, progress))
  /\ UNCHANGED <<handle, now>>

\* Date.now() advances.
Tick ==
  /\ now <= MaxTime
  /\ now' = now + 1
  /\ delivered' = Deliver(<<>>)
  /\ UNCHANGED <<tasks, running, executors, pendingQueue, work, startOrder,
                 handle, updates, listeners>>
  /\ UNCHANGED <<routerVars, syncVars>>

\* subscribe(callback): listeners.add(callback).
Subscribe(cb) ==
  /\ listeners' = listeners \cup {cb}
  /\ delivered' = Deliver(<<>>)
  /\ UNCHANGED <<tasks, running, executors, pendingQueue, work, startOrder,
                 handle, now, updates>>
  /\ UNCHANGED <<routerVars, syncVars>>

\* The function subscribe(callback) returned is called:
\* listeners.delete(callback).
Unsubscribe(cb) ==
  /\ listeners' = listeners \ {cb}
  /\ delivered' = Deliver(<<>>)
  /\ UNCHANGED <<tasks, running, executors, pendingQueue, work, startOrder,
                 handle, now, updates>>
  /\ UNCHANGED <<routerVars, syncVars>>

\* The scheduler: tasks are added, their work units settle, tasks are
\* cancelled.
Sched(limit) ==
  \/ AddTask(limit)
  \/ \E taskId \in TaskIds, result \in Results : ExecutorResolve(taskId, result)
  \/ \E taskId \in TaskIds, reason \in Reasons : ExecutorReject(taskId, reason)
  \/ \E taskId \in TaskIds : CancelTask(taskId)

Next == Sched(MaxJobs)

Spec == Init /\ [][Next]_vars

\* The scheduler with the polling timers of the promises addTask returns.
NextHandle ==
  \/ Sched(MaxJobsObserved)
  \/ \E taskId \in TaskIds : CheckCompletion(taskId)

SpecHandle == Init /\ [][NextHandle]_vars

\* The promise of the executor of a task settles.
ExecutorSettles(taskId) ==
  \/ \E result \in Results : ExecutorResolve(taskId, result)
  \/ \E reason \in Reasons : ExecutorReject(taskId, reason)

\* An executor was called and has not settled.
CanSettle == \E taskId \in DOMAIN work : work[taskId].phase = "inflight"

\* A run of checkCompletion would settle its promise.
CanCheck ==
  \E taskId \in DOMAIN handle :
    handle[taskId].state = "pending" /\ checkCompletion(Mgr, taskId) # Waiting

\* Every executor that was called settles, and the timer of every
\* checkCompletion fires; callers need not add or cancel anything.  This is
\* weak fairness of the two kinds of step, written with the conditions
\* under which they are enabled (CanSettle, CanCheck) spelled out.  Each
\* executor settles once and each promise is settled once, so fairness of
\* the two kinds of step reaches every one of them.
SpecHandleFair ==
  /\ SpecHandle
  /\ \/ []<>(~CanSettle)
     \/ []<><<\E taskId \in TaskIds : ExecutorSettles(taskId)>>_vars
  /\ \/ []<>(~CanCheck)
     \/ []<><<\E taskId \in TaskIds : CheckCompletion(taskId)>>_vars

\* The scheduler with progress updates.
NextProgress ==
  \/ Sched(MaxJobsObserved)
  \/ \E taskId \in TaskIds, progress \in ProgressInputs : UpdateTask(taskId, progress)

SpecProgress == Init /\ [][NextProgress]_vars

\* The scheduler with a clock that advances.
NextTime ==
  \/ Sched(MaxJobsObserved)
  \/ Tick

SpecTime == Init /\ [][NextTime]_vars

\* The scheduler with progress updates and with callbacks that subscribe
\* and unsubscribe.  A notification does not depend on the percentage, and
\* one percentage is reported.
NextListeners ==
  \/ Sched(MaxJobsObserved)
  \/ \E taskId \in TaskIds : updates < MaxUpdatesListened /\ UpdateTask(taskId, 50)
  \/ \E cb \in Callbacks : Subscribe(cb)
  \/ \E cb \in Callbacks : Unsubscribe(cb)

SpecListeners == Init /\ [][NextListeners]_vars

\* The router: calls of generateSubtitlesWithDeepgram and the answers of
\* its collaborators.
NextRouter ==
  \/ \E size \in FileSizes, hasKey \in BOOLEAN, extractionSupported \in BOOLEAN :
       RouterCall(size, hasKey, extractionSupported)
  \/ \E p \in ProgressReports : CompressProgress(p)
  \/ \E p \in ProgressReports : UploadProgress(p)
  \/ \E size \in CompressedSizes : CompressResolve(size)
  \/ \E message \in CompressionErrors : CompressReject(message)
  \/ UploadResolve
  \/ \E message \in UploadErrors : UploadReject(message)
  \/ \E response \in Responses : UrlResolve(response)
  \/ \E failure \in FetchFailures : UrlReject(failure)
  \/ \E response \in Responses : DirectResolve(response)
  \/ \E failure \in FetchFailures : DirectReject(failure)

SpecRouter == Init /\ [][NextRouter]_vars

\* The sync queue: enqueues, timers, connectivity events and the answers
\* of getCurrentUser and syncToCloud.
NextSync ==
  \/ LoadedWithoutCloud
  \/ InitAutoSync
  \/ \E videoId \in VideoIds : QueueVideoForSync(videoId)
  \/ RetryTimerFires
  \/ PeriodicTimerFires
  \/ OnlineEvent
  \/ OfflineEvent
  \/ \E i \in 1..MaxDrains, user \in Users : AuthResolve(i, user)
  \/ \E i \in 1..MaxDrains, result \in PushResults : PushResolve(i, result)
  \/ \E i \in 1..MaxDrains, message \in PushErrors : PushReject(i, message)
  \/ Tick

SpecSync == Init /\ [][NextSync]_vars

\* The sync queue while online and logged in, with pushes that succeed:
\* videos are queued, and the drains those calls start run.
NextSyncEnqueue ==
  \/ \E videoId \in VideoIds : QueueVideoForSync(videoId)
  \/ \E i \in 1..MaxDrains : AuthResolve(i, "user")
  \/ \E i \in 1..MaxDrains : PushResolve(i, [success |-> TRUE, error |-> Null])
  \/ Tick

SpecSyncEnqueue == Init /\ [][NextSyncEnqueue]_vars

\* The sync queue of a client that stays online.
NextSyncOnline ==
  \/ InitAutoSync
  \/ \E videoId \in VideoIds : QueueVideoForSync(videoId)
  \/ RetryTimerFires
  \/ PeriodicTimerFires
  \/ \E i \in 1..MaxDrains, user \in Users : AuthResolve(i, user)
  \/ \E i \in 1..MaxDrains, result \in PushResults : PushResolve(i, result)
  \/ \E i \in 1..MaxDrains, message \in PushErrors : PushReject(i, message)

\* The lookup of the user answers, and answers with a user again and again.
LoggedIn == \E i \in 1..MaxDrains : AuthResolve(i, "user")

\* syncToCloud answers, and succeeds again and again.
PushSucceeds ==
  \E i \in 1..MaxDrains : PushResolve(i, [success |-> TRUE, error |-> Null])

\* The client stays online; initAutoSync is called; the timers fire; the
\* user is eventually logged in and pushes eventually succeed.
SpecSyncFair ==
  /\ Init /\ [][NextSyncOnline]_vars
  /\ WF_vars(InitAutoSync)
  /\ WF_vars(RetryTimerFires)
  /\ WF_vars(PeriodicTimerFires)
  /\ SF_vars(LoggedIn)
  /\ SF_vars(PushSucceeds)

\* Every collaborator call of the router settles: its promise resolves or
\* rejects.
Settle ==
  \/ \E size \in CompressedSizes : CompressResolve(size)
  \/ \E message \in CompressionErrors : CompressReject(message)
  \/ UploadResolve
  \/ \E message \in UploadErrors : UploadReject(message)
  \/ \E response \in Responses : UrlResolve(response)
  \/ \E failure \in FetchFailures : UrlReject(failure)
  \/ \E response \in Responses : DirectResolve(response)
  \/ \E failure \in FetchFailures : DirectReject(failure)

SpecRouterFair == SpecRouter /\ WF_vars(Settle)

\* ------------------------------------------------------------- properties
Terminal == {"completed", "failed", "cancelled"}

Range(q) == {q[i] : i \in 1..Len(q)}

StatusIs(st) == {id \in DOMAIN tasks : tasks[id].status = st}

\* C1: the number of tasks whose status is running never exceeds
\* maxConcurrent.
C1_BoundedConcurrency ==
  Cardinality(StatusIs("running")) <= MaxConcurrent

\* All slots are taken, a task waits, and a task before it was cancelled
\* while running.
C1_Witness ==
  /\ Cardinality(StatusIs("running")) = MaxConcurrent
  /\ StatusIs("pending") # {}
  /\ StatusIs("cancelled") # {}

LegalStep(from, to) ==
  \/ from = to
  \/ from = "pending" /\ to \in {"running", "cancelled"}
  \/ from = "running" /\ to \in Terminal

\* C3: a task starts pending, its status changes only along
\* pending -> running -> {completed, failed, cancelled}, and a completed,
\* failed or cancelled task keeps its status.
C3_StateMachine ==
  [][/\ \A id \in DOMAIN tasks' \ DOMAIN tasks :
          tasks'[id].status \in {"pending", "running"}
     /\ \A id \in DOMAIN tasks :
          LegalStep(tasks[id].status, tasks'[id].status)]_vars

\* C4: a task cancelled while pending is cancelled at once, leaves the
\* pending queue, and from then on stays cancelled with its executor never
\* called.
C4_CancelPending ==
  [][\A id \in DOMAIN tasks :
       /\ (tasks[id].status = "pending" /\ CancelTask(id))
            => /\ tasks'[id].status = "cancelled"
               /\ id \notin Range(pendingQueue')
       /\ (tasks[id].status = "cancelled" /\ work[id].calls = 0)
            => /\ tasks'[id].status = "cancelled"
               /\ work'[id].calls = 0]_vars

\* C5: cancelTask on a completed, failed or cancelled task changes neither
\* the task nor the running set nor the pending queue.
C5_CancelTerminalNoOp ==
  [][\A id \in DOMAIN tasks :
       (tasks[id].status \in Terminal /\ CancelTask(id))
         => UNCHANGED <<tasks, running, pendingQueue>>]_vars

\* C6: a task cancelled while its work unit is in flight stays cancelled,
\* whether the work unit then returns or throws.
C6_CancelRunningSticks ==
  [][\A id \in DOMAIN tasks :
       (tasks[id].status = "cancelled" /\ work[id].phase = "inflight")
         => tasks'[id].status = "cancelled"]_vars

C8_ProgressHundredIffCompleted ==
  \A id \in DOMAIN tasks :
    tasks[id].progress = 100 <=> tasks[id].status = "completed"

\* C9: the stored progress stays within 0..100 and, while a task is
\* running, never decreases.
C9_ProgressClampedMonotone ==
  [][\A id \in DOMAIN tasks :
       /\ tasks'[id].status = "running" => tasks'[id].progress \in 0..100
       /\ (tasks[id].status = "running" /\ tasks'[id].status = "running")
            => tasks'[id].progress >= tasks[id].progress]_vars

\* C10: a settled promise of addTask agrees with the task: fulfilled with
\* the result of a completed task, rejected with the error of a failed one,
\* rejected with 'Task cancelled' for a cancelled one; and no executor is
\* called twice.
C10_HandleMatchesTask ==
  \A id \in DOMAIN handle :
    /\ work[id].calls <= 1
    /\ handle[id].state = "fulfilled"
         => /\ tasks[id].status = "completed"
            /\ handle[id].value = tasks[id].result
    /\ handle[id].state = "rejected"
         => \/ /\ tasks[id].status = "failed"
               /\ handle[id].value = tasks[id].error
            \/ /\ tasks[id].status = "cancelled"
               /\ handle[id].value = "Task cancelled"

C12_WorkConserving ==
  StatusIs("pending") # {}
    => Cardinality(StatusIs("running")) >= MaxConcurrent

\* A slot was freed by a cancel and taken by the fourth task, and the fifth
\* task waits.
C12_Witness ==
  /\ DOMAIN tasks = 1..5
  /\ tasks[5].status = "pending"
  /\ tasks[4].status = "running"
  /\ \E id \in 1..3 : tasks[id].status = "cancelled" /\ work[id].phase = "inflight"

\* The tasks a delivered list holds, by id.
ListTasks(list) ==
  [id \in {list[i].id : i \in 1..Len(list)} |->
     (list[CHOOSE i \in 1..Len(list) : list[i].id = id]).task]

\* The list holds every task of ts once, as it is in ts.
FullList(list, ts) ==
  /\ Len(list) = Cardinality(DOMAIN ts)
  /\ ListTasks(list) = ts

\* The task maps differ in one task at most.
OneMutation(ts1, ts2) ==
  Cardinality({id \in DOMAIN ts1 \cup DOMAIN ts2 :
                 \/ id \notin DOMAIN ts1
                 \/ id \notin DOMAIN ts2
                 \/ ts1[id] # ts2[id]}) <= 1

\* C13: in every step each subscribed callback receives a list after each
\* mutation of a task, the last list being the full current task list; a
\* callback that is not subscribed receives nothing, and the function
\* subscribe returned removes the callback.
C13_SubscriptionDelivery ==
  [][\A cb \in Callbacks :
       /\ cb \notin listeners => delivered'[cb] = <<>>
       /\ Unsubscribe(cb) => cb \notin listeners'
       /\ cb \in listeners =>
            LET d == delivered'[cb] IN
            /\ tasks' # tasks => d # <<>>
            /\ d # <<>> => FullList(d[Len(d)], tasks')
            /\ \A i \in 1..Len(d) :
                 OneMutation(IF i = 1 THEN tasks ELSE ListTasks(d[i - 1]),
                             ListTasks(d[i]))]_vars

\* A subscribed callback received two lists in one step (a task ended and
\* the queued one started) while the other callback is not subscribed.
C13_Witness ==
  /\ \E cb \in listeners :
       /\ Len(delivered[cb]) = 2
       /\ Len(delivered[cb][2]) = 4
       /\ \E i \in 1..4 : delivered[cb][1][i].task.status \in Terminal
  /\ \E cb \in Callbacks : cb \notin listeners

\* The work units that were started and have not settled.
InFlightWork == {id \in DOMAIN work : work[id].phase = "inflight"}

\* C28: the work units that were started and have not settled are never
\* more than maxConcurrent, also after a running task was cancelled.
C28_InFlightBounded == Cardinality(InFlightWork) <= MaxConcurrent

\* Every task added so far has a terminal status and a settled promise.
AllTasksEnded ==
  \A id \in DOMAIN tasks :
    tasks[id].status \in Terminal /\ handle[id].state # "pending"

RoutedBySize(as, cs) ==
  as # <<>> =>
    LET s == as[1].bytes IN
    IF s <= LimitBytes
    THEN as = <<Attempt("direct", s)>>
    ELSE /\ as[1] = Attempt("compress", s)
         /\ \A i \in 2..Len(as) : as[i].op # "compress"
         /\ Len(as) >= 2 =>
              IF cs <= LimitBytes
              THEN as = <<Attempt("compress", s), Attempt("direct", cs)>>
              ELSE /\ as[2] = Attempt("upload", cs)
                   /\ Len(as) <= 3
                   /\ Len(as) = 3 => as[3] = Attempt("url", 0)

\* The call has put an object into the bucket.
Uploaded == \E i \in 1..Len(attempts) : attempts[i].op = "upload"

InFlight == {"compress", "upload", "url", "direct"}

\* C15: whatever the collaborators answer, a call makes at most 3 attempts,
\* never the same one twice for the same size, and it ends.
C15_AttemptBound ==
  /\ [](/\ Len(attempts) <= 3
        /\ \A i, j \in 1..Len(attempts) :
             i # j => attempts[i] # attempts[j])
  /\ (routerPc \in InFlight ~> routerPc = "done")

\* A call that compressed, uploaded, asked the provider by URL and failed.
C15_Witness ==
  /\ routerPc = "done"
  /\ Len(attempts) = 3
  /\ outcome.kind = "thrown"

\* The failure says that the request was too large.
SizeRelated(failure) == failure.class = "http" /\ failure.status = "413"

\* C16: when a file of at most LimitBytes fails to go through the proxy,
\* the call goes on to compress it if the failure is size-related, and
\* throws at once otherwise.
C16_DirectFailureClassified ==
  [][\A failure \in FetchFailures :
       DirectReject(failure) /\ attempts[1].op = "direct" =>
         IF SizeRelated(failure)
         THEN routerPc' = "compress"
         ELSE /\ routerPc' = "done"
              /\ outcome'.kind = "thrown"
              /\ attempts' = attempts]_vars

\* C17: when the compressed audio is too large and the upload fails, the
\* call throws the composite error that reports the failure of the upload,
\* and attempts nothing more.
C17_UploadFailureReported ==
  [][\A message \in UploadErrors :
       UploadReject(message) =>
         /\ routerPc' = "done"
         /\ attempts' = attempts
         /\ outcome' = Thrown(CompositeUploadError(message))]_vars

\* C18: the object a call has uploaded is gone from the bucket when the
\* call ends.
C18_UploadedObjectDeleted ==
  routerPc = "done" /\ Uploaded => calls \notin storage

\* C30: the values one call passes to onProgress never decrease, on any
\* path, and the last one is 100 exactly when the call returns a result.
C30_ProgressMonotone ==
  /\ \A i \in 1..(Len(onProgressLog) - 1) : onProgressLog[i] <= onProgressLog[i + 1]
  /\ routerPc = "done" =>
       (outcome.kind = "returned"
          <=> (onProgressLog # <<>> /\ onProgressLog[Len(onProgressLog)] = 100))

\* --------------------------------------------------------- the sync queue

\* The calls of processSyncQueue that wait for syncToCloud.
Pushing == {i \in 1..Len(drains) : drains[i].pc = "push"}

\* C19: single flight.  Whatever the order of enqueues, timers and online
\* events, a call of processSyncQueue made while another has not finished
\* pushes nothing: no two calls wait for syncToCloud at the same time.
C19_SingleFlight == Cardinality(Pushing) <= 1

\* C20: an id leaves the queue only in the step in which the push of that
\* id succeeds.
C20_RemovedOnlyByOwnPush ==
  [][\A v \in Range(syncQueue) \ Range(syncQueue') :
       \E i \in Pushing, result \in PushResults :
         /\ result.success
         /\ drains[i].videoId = v
         /\ PushResolve(i, result)]_vars

\* A step that calls processSyncQueue while the browser is offline.
StartsDrainBlocked ==
  /\ ~online'
  /\ \/ InitAutoSync
     \/ RetryTimerFires
     \/ PeriodicTimerFires
     \/ \E v \in VideoIds : v \notin Range(syncQueue) /\ QueueVideoForSync(v)

\* The calls of processSyncQueue that await a promise, as the program holds
\* them: where each one stands and what it pushes.
AwaitedCalls(d) ==
  [i \in 1..Len(d) |-> [pc |-> d[i].pc, videoId |-> d[i].videoId]]

\* No call of processSyncQueue has started, ended or moved on.
NothingPushed == AwaitedCalls(drains') = AwaitedCalls(drains)

\* The call of processSyncQueue has left the queue as the step's caller
\* made it.
QueueKept ==
  \/ syncQueue' = syncQueue
  \/ \E v \in VideoIds : QueueVideoForSync(v) /\ syncQueue' = Append(syncQueue, v)

\* A call of processSyncQueue that learns that nobody is logged in.
Unauthenticated(i) == AuthResolve(i, Null)

\* C24 as stated: a drain that starts while offline or with nobody logged
\* in pushes nothing, leaves the queue unchanged and sets the status to
\* error.
C24_BlockedDrainAsStated ==
  [][/\ StartsDrainBlocked
          => NothingPushed /\ QueueKept /\ syncStatus' = "error"
     /\ \A i \in 1..MaxDrains :
          Unauthenticated(i)
            => /\ drains' = RemoveAt(drains, i)
               /\ syncQueue' = syncQueue
               /\ syncStatus' = "error"]_vars

\* C24, amended: the same, but the status is set to error only when the
\* queue holds an entry and no drain is past its authentication lookup;
\* with an empty queue, or while isSyncing is set, the call returns at its
\* first line and leaves the status as it was.
C24_BlockedDrain ==
  [][/\ StartsDrainBlocked
          => /\ NothingPushed
             /\ QueueKept
             /\ IF syncQueue' # <<>> /\ ~isSyncing
                THEN syncStatus' = "error"
                ELSE syncStatus' = syncStatus \/ InitAutoSync
     /\ \A i \in 1..MaxDrains :
          Unauthenticated(i)
            => /\ drains' = RemoveAt(drains, i)
               /\ syncQueue' = syncQueue
               /\ syncStatus' = "error"]_vars

\* A video was queued while offline, before initAutoSync has added its
\* listeners: the drain has set the error, and nothing is pushed.
C24_Witness ==
  /\ ~initialized
  /\ ~online
  /\ syncQueue # <<>>
  /\ drains = <<>>
  /\ syncStatus = "error"
  /\ lastError = OfflineMessage

\* The push of the call i fails with the message: syncToCloud resolves
\* without success, or rejects.
PushFails(i, message) ==
  \/ \E result \in PushResults :
       /\ ~result.success
       /\ message = (IF result.error # Null THEN result.error ELSE DefaultPushMessage)
       /\ PushResolve(i, result)
  \/ message \in PushErrors /\ PushReject(i, message)

PushMessages ==
  (PushErrors \cup {DefaultPushMessage} \cup {r.error : r \in PushResults}) \ {Null}

\* C25: when a push fails, the drain stops there and pushes nothing more,
\* the failed entry and the entries behind it stay queued in their order,
\* the error is recorded in the status, and one retry is scheduled after
\* the fixed delay.
C25_PushFailure ==
  [][\A i \in 1..MaxDrains : \A message \in PushMessages :
       PushFails(i, message)
         => /\ drains' = RemoveAt(drains, i)
            /\ syncQueue' = syncQueue
            /\ syncQueue # <<>> /\ Head(syncQueue) = drains[i].videoId
            /\ syncStatus' = "error"
            /\ lastError' = message
            /\ retryTimer' = RetryDelay]_vars

\* C27: a drain that fails for want of authentication, because nobody is
\* logged in or because the remote store rejects the session, leaves the
\* status at error and schedules no retry, whereas every other failure of
\* a push schedules a retry after the fixed delay.
C27_AuthFailureNotRetried ==
  [][\A i \in 1..MaxDrains :
       /\ Unauthenticated(i)
            => syncStatus' = "error" /\ retryTimer' = retryTimer
       /\ \A message \in PushMessages :
            PushFails(i, message)
              => IF message = AuthRejectedMessage
                 THEN syncStatus' = "error" /\ retryTimer' = retryTimer
                 ELSE retryTimer' = RetryDelay]_vars

NoDuplicates(q) == \A i, j \in 1..Len(q) : q[i] = q[j] => i = j

\* The call i of processSyncQueue goes on in this step and calls syncToCloud.
StartsPush(i) ==
  /\ \/ \E user \in Users : AuthResolve(i, user)
     \/ \E result \in PushResults : PushResolve(i, result)
  /\ Len(drains') = Len(drains)
  /\ drains'[i].pc = "push"

\* C22: the queue never holds an id twice; queueVideoForSync of an id that
\* is queued leaves the queue as it is, and of a new id appends it; no
\* other step reorders the queue; and every push is of the id at the head
\* of the queue, that is, of the one that was queued first.
C22_OrderedNoDuplicates ==
  [][/\ NoDuplicates(syncQueue')
     /\ \A v \in VideoIds :
          QueueVideoForSync(v)
            => syncQueue' = IF v \in Range(syncQueue)
                            THEN syncQueue
                            ELSE Append(syncQueue, v)
     /\ (\A v \in VideoIds : ~QueueVideoForSync(v))
          => syncQueue' \in {syncQueue, shift(syncQueue)}
     /\ \A i \in 1..MaxDrains :
          StartsPush(i) => drains'[i].videoId = Head(syncQueue')]_vars

\* Two videos were queued; the first was pushed and removed, and the
\* second is being pushed.
C22_Witness ==
  /\ syncQueue = <<2>>
  /\ drains = <<[pc |-> "push", videoId |-> 2, stale |-> FALSE]>>
  /\ lastError = Null

\* The call i of processSyncQueue ends after a push that succeeded; every
\* push it made before has succeeded too, or it would have ended there.
CompletesDrain(i) ==
  /\ \E result \in PushResults : result.success /\ PushResolve(i, result)
  /\ Len(drains') = Len(drains) - 1

\* A step of a call of processSyncQueue after its first await.
DrainStep ==
  \E i \in 1..MaxDrains :
    \/ \E user \in Users : AuthResolve(i, user)
    \/ \E result \in PushResults : PushResolve(i, result)
    \/ \E message \in PushErrors : PushReject(i, message)

\* C26: when a drain ends with all its pushes successful, the queue is
\* empty, the status is idle, no error is recorded and lastSyncTime is the
\* current time; and no drain sets the status to idle while an entry is
\* queued.
C26_FullDrain ==
  [][/\ \A i \in 1..MaxDrains :
          CompletesDrain(i)
            => /\ syncQueue' = <<>>
               /\ syncStatus' = "idle"
               /\ lastError' = Null
               /\ lastSyncTime' = now
     /\ (DrainStep /\ syncStatus # "idle" /\ syncStatus' = "idle")
          => syncQueue' = <<>>]_vars

\* A full drain has ended after the clock had advanced: its time is
\* recorded.
C26_Witness ==
  /\ syncQueue = <<>>
  /\ drains = <<>>
  /\ syncStatus = "idle"
  /\ lastError = Null
  /\ lastSyncTime = now
  /\ now > 1

\* C21: queueVideoForSync(e) twice before a drain: while online and logged
\* in, with pushes that succeed and no other trigger than these calls, e is
\* pushed at most once, and exactly once by the time the queue is drained.
C21_OnePushPerEntry ==
  \A e \in VideoIds :
    DOMAIN pushes = {e} =>
      /\ pushes[e] <= 1
      /\ (syncQueue = <<>> /\ drains = <<>>) => pushes[e] = 1

\* The only video that was queued has been pushed once, and the drain has
\* ended.
C21_Witness ==
  /\ DOMAIN pushes = {1}
  /\ pushes[1] = 1
  /\ syncQueue = <<>>
  /\ drains = <<>>
  /\ syncStatus = "idle"

\* C23: every video for which queueVideoForSync was called is mirrored in
\* the end: a push of it that started at or after the call succeeds.
C23_EventuallyMirrored ==
  \A v \in VideoIds : (v \in unmirrored) ~> (v \notin unmirrored)
====
